---- MODULE Spec2Model ----
(***************************************************************************)
(* A model of src/orchestrator_client.rs: the OrchestratorClient, its      *)
(* encode-send-decode primitive make_request, and the two operations       *)
(* get_proof_task and submit_proof.  Every async fn is cut at its await    *)
(* points (send, text, bytes); the segment of code between two await       *)
(* points is one atomic action.  The orchestrator service and the          *)
(* transport are the environment: they choose the status, the body bytes   *)
(* and whether the send or the body read fails.                            *)
(***************************************************************************)
EXTENDS Integers, Sequences, FiniteSets, TLC

\* ------------------------------------------------------------------ bounds

\* Longest response body the service sends in the one-call specification.
MaxBodyLen == 3

\* Number of calls that may be in flight at once on the one client.
NumCalls == 2

\* ------------------------------------------------------------- value sets

\* The bytes a response body is made of.  As a protobuf key: 0 and 1 have
\* tag 0, 8 is field 1 / varint, 10 is field 1 / length-delimited, 128 is a
\* varint continuation byte (and on its own no valid UTF-8).
Bytes == {0, 1, 8, 10, 128}

RECURSIVE SeqsUpTo(_, _)
SeqsUpTo(S, n) ==
    IF n = 0 THEN {<<>>}
    ELSE LET shorter == SeqsUpTo(S, n - 1)
         IN  shorter \cup {Append(s, x) : s \in {t \in shorter : Len(t) = n - 1}, x \in S}

\* Bodies of the one-call specification.
Bodies == SeqsUpTo(Bytes, MaxBodyLen)

\* Bodies of the concurrent specification: absent, a well-formed message
\* (field 1 = "\x01"), and a truncated one.
ConcBodies == {<<>>, <<10, 1, 1>>, <<10, 1>>}

\* Status codes the service answers with; 200..299 are the success codes.
Statuses == {200, 204, 299, 300, 404, 503}
ConcStatuses == {204, 503}

\* Texts of the low-level transport errors (reqwest::Error's Display).
TransportErrors == {"connection reset by peer", "operation timed out"}
ConcTransportErrors == {"connection reset by peer"}

NodeIds == {"", "node-1"}
ProofHashes == {"hash-1"}
Proofs == {<<>>, <<7>>}

\* ------------------------------------------------- text of a response body

\* Length of the well-formed UTF-8 sequence that starts at b[p], 0 if none
\* starts there (core::str::from_utf8's acceptance table).
Cont(b, p, lo, hi) == p <= Len(b) /\ b[p] >= lo /\ b[p] <= hi

Utf8Len(b, p) ==
    LET x == b[p] IN
    IF x < 128 THEN 1
    ELSE IF x >= 194 /\ x <= 223 THEN (IF Cont(b, p + 1, 128, 191) THEN 2 ELSE 0)
    ELSE IF x >= 224 /\ x <= 239
         THEN LET lo == IF x = 224 THEN 160 ELSE 128
                  hi == IF x = 237 THEN 159 ELSE 191
              IN  IF Cont(b, p + 1, lo, hi) /\ Cont(b, p + 2, 128, 191) THEN 3 ELSE 0
    ELSE IF x >= 240 /\ x <= 244
         THEN LET lo == IF x = 240 THEN 144 ELSE 128
                  hi == IF x = 244 THEN 143 ELSE 191
              IN  IF /\ Cont(b, p + 1, lo, hi)
                     /\ Cont(b, p + 2, 128, 191)
                     /\ Cont(b, p + 3, 128, 191)
                  THEN 4 ELSE 0
    ELSE 0

RECURSIVE IsUtf8From(_, _)
IsUtf8From(b, p) ==
    IF p > Len(b) THEN TRUE
    ELSE LET n == Utf8Len(b, p) IN IF n = 0 THEN FALSE ELSE IsUtf8From(b, p + n)

IsUtf8(b) == IsUtf8From(b, 1)

\* The code point of the well-formed sequence of length n at b[p].
CodePoint(b, p, n) ==
    IF n = 1 THEN b[p]
    ELSE IF n = 2 THEN (b[p] - 192) * 64 + (b[p + 1] - 128)
    ELSE IF n = 3 THEN (b[p] - 224) * 4096 + (b[p + 1] - 128) * 64 + (b[p + 2] - 128)
    ELSE (b[p] - 240) * 262144 + (b[p + 1] - 128) * 4096
         + (b[p + 2] - 128) * 64 + (b[p + 3] - 128)

\* U+FFFD, what a byte that is no UTF-8 is read as.
ReplacementChar == 65533

\* Response::text(): the body read as UTF-8 text, a sequence of code points;
\* a byte that starts no well-formed sequence becomes U+FFFD.
RECURSIVE TextFrom(_, _)
TextFrom(b, p) ==
    IF p > Len(b) THEN <<>>
    ELSE LET n == Utf8Len(b, p)
         IN  IF n = 0 THEN <<ReplacementChar>> \o TextFrom(b, p + 1)
             ELSE <<CodePoint(b, p, n)>> \o TextFrom(b, p + n)

Text(b) == TextFrom(b, 1)

\* ------------------------------------------------- the wire format decoder

\* prost::encoding::decode_varint: base-128, least significant group first,
\* at most ten bytes.
MaxVarintBytes == 10

RECURSIVE VarintFrom(_, _, _, _, _)
VarintFrom(b, p, mult, acc, count) ==
    IF p > Len(b) \/ count > MaxVarintBytes
    THEN [ok |-> FALSE, diag |-> "invalid varint"]
    ELSE LET acc2 == acc + (b[p] % 128) * mult
         IN  IF b[p] < 128
             THEN [ok |-> TRUE, value |-> acc2, next |-> p + 1]
             ELSE VarintFrom(b, p + 1, mult * 128, acc2, count + 1)

DecodeVarint(b, p) == VarintFrom(b, p, 1, 0, 1)

\* Wire types of the format.
WtVarint == 0
WtSixtyFourBit == 1
WtLengthDelimited == 2
WtStartGroup == 3
WtEndGroup == 4
WtThirtyTwoBit == 5

\* prost::encoding::decode_key: a varint holding (tag << 3) | wire type.
\* (Its check that the key fits 32 bits needs a varint of five bytes or more,
\* longer than any body here, and is left out.)
DecodeKey(b, p) ==
    LET v == DecodeVarint(b, p) IN
    IF ~v.ok THEN v
    ELSE IF v.value % 8 > WtThirtyTwoBit
         THEN [ok |-> FALSE, diag |-> "invalid wire type value"]
    ELSE IF v.value \div 8 < 1 THEN [ok |-> FALSE, diag |-> "invalid tag value: 0"]
    ELSE [ok |-> TRUE, tag |-> v.value \div 8, wt |-> v.value % 8, next |-> v.next]

\* Advance over len bytes from p, if the buffer holds them.
Advance(b, p, len) ==
    IF len > Len(b) - p + 1 THEN [ok |-> FALSE, diag |-> "buffer underflow"]
    ELSE [ok |-> TRUE, next |-> p + len]

\* prost::encoding::skip_field: pass over a field the message does not know.
RECURSIVE SkipField(_, _, _, _)
RECURSIVE SkipGroup(_, _, _)
SkipField(b, p, wt, tag) ==
    IF wt = WtVarint
    THEN LET v == DecodeVarint(b, p)
         IN  IF v.ok THEN [ok |-> TRUE, next |-> v.next] ELSE v
    ELSE IF wt = WtSixtyFourBit THEN Advance(b, p, 8)
    ELSE IF wt = WtThirtyTwoBit THEN Advance(b, p, 4)
    ELSE IF wt = WtLengthDelimited
         THEN LET v == DecodeVarint(b, p)
              IN  IF v.ok THEN Advance(b, v.next, v.value) ELSE v
    ELSE IF wt = WtStartGroup THEN SkipGroup(b, p, tag)
    ELSE [ok |-> FALSE, diag |-> "unexpected end group tag"]

SkipGroup(b, p, tag) ==
    LET k == DecodeKey(b, p) IN
    IF ~k.ok THEN k
    ELSE IF k.wt = WtEndGroup
         THEN IF k.tag # tag THEN [ok |-> FALSE, diag |-> "unexpected end group tag"]
              ELSE [ok |-> TRUE, next |-> k.next]
    ELSE LET r == SkipField(b, k.next, k.wt, k.tag)
         IN  IF r.ok THEN SkipGroup(b, r.next, tag) ELSE r

\* The two response shapes make_request is instantiated with.  A schema maps
\* the field numbers the message knows to the kind of the field.
\* (): the empty message, no field.
UnitSchema == <<>>

\* GetProofTaskResponse (declared in crate::nexus_orchestrator, imported at
\* lines 4-6): a message of length-delimited fields.
GetProofTaskResponseSchema == (1 :> "string") @@ (2 :> "bytes") @@ (3 :> "string")

\* U::default(): every field empty.
DefaultMessage(schema) == [t \in DOMAIN schema |-> <<>>]

\* Message::merge_field of a generated message: a known field is read into
\* the message (length-delimited, a string field must be UTF-8), an unknown
\* one is skipped.
MergeField(schema, msg, b, p, wt, tag) ==
    IF tag \notin DOMAIN schema
    THEN LET r == SkipField(b, p, wt, tag)
         IN  IF r.ok THEN [ok |-> TRUE, msg |-> msg, next |-> r.next] ELSE r
    ELSE IF wt # WtLengthDelimited
         THEN [ok |-> FALSE, diag |-> "invalid wire type (expected LengthDelimited)"]
    ELSE LET v == DecodeVarint(b, p) IN
         IF ~v.ok THEN v
         ELSE LET a == Advance(b, v.next, v.value) IN
              IF ~a.ok THEN a
              ELSE LET payload == SubSeq(b, v.next, a.next - 1) IN
                   IF schema[tag] = "string" /\ ~IsUtf8(payload)
                   THEN [ok |-> FALSE,
                         diag |-> "invalid string value: data is not UTF-8 encoded"]
                   ELSE [ok |-> TRUE, msg |-> [msg EXCEPT ![tag] = payload],
                         next |-> a.next]

\* Message::decode: merge fields until the buffer is used up.
RECURSIVE DecodeFrom(_, _, _, _)
DecodeFrom(schema, msg, b, p) ==
    IF p > Len(b) THEN [ok |-> TRUE, msg |-> msg]
    ELSE LET k == DecodeKey(b, p) IN
         IF ~k.ok THEN [ok |-> FALSE, diag |-> k.diag]
         ELSE LET m == MergeField(schema, msg, b, k.next, k.wt, k.tag) IN
              IF ~m.ok THEN [ok |-> FALSE, diag |-> m.diag]
              ELSE DecodeFrom(schema, m.msg, b, m.next)

Decode(schema, b) == DecodeFrom(schema, DefaultMessage(schema), b, 1)

\* ------------------------------------------------------ results and errors

\* Err(Box<dyn Error>) made from a string: the format string and what fills
\* it.  Fields an error does not use hold 0, "" or <<>>.
StrErr(fmt) ==
    [ok |-> FALSE, type |-> "String", fmt |-> fmt,
     status |-> 0, reason |-> "", text |-> <<>>, diag |-> ""]

\* Err(Box<dyn Error>) holding the transport's own error (the ? operator on
\* a reqwest::Error); diag is the text that error displays.
ReqwestErr(e) ==
    [ok |-> FALSE, type |-> "reqwest::Error", fmt |-> "{}",
     status |-> 0, reason |-> "", text |-> <<>>, diag |-> e]

\* Ok(Some(msg)), Ok(None) of make_request; Ok(msg), Ok(()) of the operations.
OkSome(msg) == [ok |-> TRUE, some |-> TRUE, value |-> msg]
OkNone == [ok |-> TRUE, some |-> FALSE, value |-> <<>>]
Unit == <<>>

\* IsSuccess with the redirect class taken for success.
IsSuccessBelow400(status) == status >= 200 /\ status < 400

\* StatusCode::is_success.
IsSuccess(status) == status >= 200 /\ status < 300

\* StatusCode's Display prints the code and its canonical reason.
CanonicalReason(status) ==
    CASE status = 200 -> "OK"
      [] status = 204 -> "No Content"
      [] status = 300 -> "Multiple Choices"
      [] status = 404 -> "Not Found"
      [] status = 503 -> "Service Unavailable"
      [] OTHER -> "<unknown status code>"

\* ------------------------------------------------------------------- state

Calls == 1..NumCalls

VARIABLES
    client,     \* self.client: the handle made by Client::new()
    base_url,   \* self.base_url
    pc,         \* per call: "idle", "send", "text", "bytes" (the awaits), "done"
    op,         \* per call: "none", "get_proof_task", "submit_proof"
    args,       \* per call: the arguments of the call
    trace,      \* per call: its outside effects, in order
    request,    \* per call: the HTTP request it handed to the transport
    net,        \* calls with an exchange open on the transport
    response,   \* per call: status and body the service answered with
    fault,      \* per call: the transport failure that hit it, if any
    result      \* per call: what the call returned

vars == <<client, base_url, pc, op, args, trace, request, net, response, fault, result>>

NoArgs == [node_id |-> "", proof_hash |-> "", proof |-> <<>>]
NoRequest == [url |-> "", method |-> "", content_type |-> "", node_id |-> "",
              proof |-> <<>>]
NoResponse == [status |-> 0, body |-> <<>>]
NoFault == [at |-> "none", text |-> ""]
NoResult == [ok |-> FALSE, type |-> "pending", fmt |-> "",
             status |-> 0, reason |-> "", text |-> <<>>, diag |-> ""]

\* config::Environment and its orchestrator_url().
Environments == {"Local", "Beta"}
OrchestratorUrl(environment) ==
    IF environment = "Local" THEN "http://localhost:8080"
    ELSE "https://beta.orchestrator.example"

\* OrchestratorClient::new, and no call made yet.
Init ==
    /\ client = "Client::new()"
    /\ \E environment \in Environments : base_url = OrchestratorUrl(environment)
    /\ pc = [c \in Calls |-> "idle"]
    /\ op = [c \in Calls |-> "none"]
    /\ args = [c \in Calls |-> NoArgs]
    /\ trace = [c \in Calls |-> <<>>]
    /\ request = [c \in Calls |-> NoRequest]
    /\ net = {}
    /\ response = [c \in Calls |-> NoResponse]
    /\ fault = [c \in Calls |-> NoFault]
    /\ result = [c \in Calls |-> NoResult]

\* ---------------------------------------------------------- make_request

\* Lines 37-41: the verbs make_request knows.
SupportedMethod(method) == method \in {"POST", "GET"}

\* Lines 34-46: the request handed to the transport.  The body is the wire
\* encoding of request_data; the model keeps the fields of it that the
\* operations set from their arguments.
BuildRequest(path, method, node_id, proof) ==
    [url |-> base_url \o path, method |-> method,
     content_type |-> "application/octet-stream",
     node_id |-> node_id, proof |-> proof]

\* Line 48: the error of a failed send.
OnSendError(e) == StrErr("Failed to connect to orchestrator")

\* Lines 52 and 56: the error of a failed body read, passed on by ?.
OnBodyReadError(e) == ReqwestErr(e)

\* Lines 50-54: the failure for a status that is no success.
StatusError(status, body) ==
    [StrErr("HTTP {}: {}") EXCEPT !.status = status,
                                  !.reason = CanonicalReason(status),
                                  !.text = Text(body)]

\* Lines 61-63: a decode failure.
DecodeError(diag) == [StrErr("Protobuf decode error: {}") EXCEPT !.diag = diag]

\* InterpretBody with a body that does not decode taken for no body.
InterpretBodyLenient(schema, body) ==
    IF body = <<>> THEN OkNone
    ELSE LET d == Decode(schema, body)
         IN  IF d.ok THEN OkSome(d.msg) ELSE OkNone

\* Lines 56-63: what make_request returns for a 2xx response whose body
\* arrived.
InterpretBody(schema, body) ==
    IF body = <<>> THEN OkNone
    ELSE LET d == Decode(schema, body)
         IN  IF d.ok THEN OkSome(d.msg) ELSE DecodeError(d.diag)

\* ResponseOf with one response slot shared by all calls.
ResponseOfShared(c) == response[1]

\* The response a call reads: the one to its own request.
ResponseOf(c) == response[c]

\* -------------------------------------------------------- the operations

\* ValidNodeId with the check left out.
ValidNodeIdAlways(node_id) == TRUE

\* Line 71.
ValidNodeId(node_id) == node_id # ""

\* ValidProof with the check left out.
ValidProofAlways(proof) == TRUE

\* Line 92.
ValidProof(proof) == proof # <<>>

\* GetProofTaskResult with the absent response passed on as a default task.
GetProofTaskResultDefault(r) ==
    IF ~r.ok THEN r
    ELSE IF r.some THEN [ok |-> TRUE, value |-> r.value]
    ELSE [ok |-> TRUE, value |-> DefaultMessage(GetProofTaskResponseSchema)]

\* Lines 80-82: get_proof_task after make_request has returned r.
GetProofTaskResult(r) ==
    IF ~r.ok THEN r
    ELSE IF r.some THEN [ok |-> TRUE, value |-> r.value]
    ELSE StrErr("Empty response from orchestrator")

\* SubmitProofResult that insists on an absent body.
SubmitProofResultStrict(r) ==
    IF ~r.ok THEN r
    ELSE IF r.some THEN StrErr("Unexpected response from orchestrator")
    ELSE [ok |-> TRUE, value |-> Unit]

\* Lines 112-116: submit_proof after make_request has returned r.
SubmitProofResult(r) == IF ~r.ok THEN r ELSE [ok |-> TRUE, value |-> Unit]

\* Line 115 runs when make_request returned Ok.
SubmitProofEffects(r) == IF r.ok THEN <<"println">> ELSE <<>>

\* A call returns r without (further) awaiting.
Finish(c, r, effects) ==
    /\ result' = [result EXCEPT ![c] = r]
    /\ trace' = [trace EXCEPT ![c] = trace[c] \o effects]
    /\ pc' = [pc EXCEPT ![c] = "done"]
    /\ net' = net \ {c}

\* make_request up to its first await (lines 34-47), run by call c after it
\* has had the effects `before`.
StartRequest(c, path, method, node_id, proof, before) ==
    IF ~SupportedMethod(method)
    THEN /\ result' = [result EXCEPT ![c] = StrErr("Unsupported HTTP method")]
         /\ trace' = [trace EXCEPT ![c] = before]
         /\ pc' = [pc EXCEPT ![c] = "done"]
         /\ UNCHANGED <<request, net>>
    ELSE /\ request' = [request EXCEPT ![c] = BuildRequest(path, method, node_id, proof)]
         /\ net' = net \cup {c}
         /\ trace' = [trace EXCEPT ![c] = before \o <<"send">>]
         /\ pc' = [pc EXCEPT ![c] = "send"]
         /\ UNCHANGED result

\* get_proof_task(node_id), lines 67-80, up to the await of the send.
GetProofTask(c, node_id) ==
    /\ pc[c] = "idle"
    /\ op' = [op EXCEPT ![c] = "get_proof_task"]
    /\ args' = [args EXCEPT ![c] = [NoArgs EXCEPT !.node_id = node_id]]
    /\ IF ~ValidNodeId(node_id)
       THEN /\ result' = [result EXCEPT ![c] = StrErr("Invalid node ID")]
            /\ pc' = [pc EXCEPT ![c] = "done"]
            /\ UNCHANGED <<trace, request, net>>
       ELSE StartRequest(c, "/tasks", "POST", node_id, <<>>, <<>>)
    /\ UNCHANGED <<client, base_url, response, fault>>

\* submit_proof(node_id, proof_hash, proof), lines 86-112, up to the await
\* of the send.
SubmitProof(c, node_id, proof_hash, proof) ==
    /\ pc[c] = "idle"
    /\ op' = [op EXCEPT ![c] = "submit_proof"]
    /\ args' = [args EXCEPT ![c] =
                   [node_id |-> node_id, proof_hash |-> proof_hash, proof |-> proof]]
    /\ IF ~ValidProof(proof)
       THEN /\ result' = [result EXCEPT ![c] = StrErr("Empty proof submitted")]
            /\ pc' = [pc EXCEPT ![c] = "done"]
            /\ UNCHANGED <<trace, request, net>>
       ELSE StartRequest(c, "/tasks/submit", "POST", node_id, proof,
                         <<"get_memory_info", "measure_flops">>)
    /\ UNCHANGED <<client, base_url, response, fault>>

\* SendFails with the request issued again after a failed send.
SendFailsRetry(c, e) ==
    /\ pc[c] = "send"
    /\ Len(trace[c]) < 4
    /\ trace' = [trace EXCEPT ![c] = Append(trace[c], "send")]
    /\ UNCHANGED <<client, base_url, pc, op, args, request, net, response, fault, result>>

\* The send fails with transport error e: lines 47-48, and the ? of the
\* operation.
SendFails(c, e) ==
    /\ pc[c] = "send"
    /\ fault' = [fault EXCEPT ![c] = [at |-> "send", text |-> e]]
    /\ Finish(c, OnSendError(e), <<>>)
    /\ UNCHANGED <<client, base_url, op, args, request, response>>

\* The send completes with a response of the service, one of `statuses` with
\* a body of `bodies`: lines 47-52 or 47-56, up to the await of the body.
SendCompletes(c, statuses, bodies) ==
    /\ pc[c] = "send"
    /\ \E status \in statuses, body \in bodies :
           /\ response' = [response EXCEPT ![c] = [status |-> status, body |-> body]]
           /\ pc' = [pc EXCEPT ![c] = IF IsSuccess(status) THEN "bytes" ELSE "text"]
    /\ UNCHANGED <<client, base_url, op, args, trace, request, net, fault, result>>

\* response.text() completes: lines 52-53, and the ? of the operation.
TextRead(c) ==
    /\ pc[c] = "text"
    /\ Finish(c, StatusError(ResponseOf(c).status, ResponseOf(c).body), <<>>)
    /\ UNCHANGED <<client, base_url, op, args, request, response, fault>>

\* response.bytes() completes: lines 56-63, then lines 81-82 of
\* get_proof_task or lines 113-116 of submit_proof.
BytesRead(c) ==
    /\ pc[c] = "bytes"
    /\ IF op[c] = "get_proof_task"
       THEN Finish(c, GetProofTaskResult(
                          InterpretBody(GetProofTaskResponseSchema, ResponseOf(c).body)),
                   <<>>)
       ELSE LET r == InterpretBody(UnitSchema, ResponseOf(c).body)
            IN  Finish(c, SubmitProofResult(r), SubmitProofEffects(r))
    /\ UNCHANGED <<client, base_url, op, args, request, response, fault>>

\* response.text() or response.bytes() fails with transport error e: the ?
\* of line 52 or 56, and the ? of the operation.
BodyReadFails(c, e) ==
    /\ pc[c] \in {"text", "bytes"}
    /\ fault' = [fault EXCEPT ![c] = [at |-> pc[c], text |-> e]]
    /\ Finish(c, OnBodyReadError(e), <<>>)
    /\ UNCHANGED <<client, base_url, op, args, request, response>>

\* The caller has the result; the call's frame is gone.
Return(c) ==
    /\ pc[c] = "done"
    /\ pc' = [pc EXCEPT ![c] = "idle"]
    /\ op' = [op EXCEPT ![c] = "none"]
    /\ args' = [args EXCEPT ![c] = NoArgs]
    /\ trace' = [trace EXCEPT ![c] = <<>>]
    /\ request' = [request EXCEPT ![c] = NoRequest]
    /\ response' = [response EXCEPT ![c] = NoResponse]
    /\ fault' = [fault EXCEPT ![c] = NoFault]
    /\ result' = [result EXCEPT ![c] = NoResult]
    /\ UNCHANGED <<client, base_url, net>>

\* One call at a time, against a service that answers with any status and
\* any body.
Next ==
    \/ \E n \in NodeIds : GetProofTask(1, n)
    \/ \E n \in NodeIds, h \in ProofHashes, p \in Proofs : SubmitProof(1, n, h, p)
    \/ \E e \in TransportErrors : SendFails(1, e)
    \/ SendCompletes(1, Statuses, Bodies)
    \/ TextRead(1)
    \/ BytesRead(1)
    \/ \E e \in TransportErrors : BodyReadFails(1, e)
    \/ Return(1)

Spec == Init /\ [][Next]_vars

\* Calls interleaved on the one client.
NextConc ==
    \/ \E c \in Calls, n \in NodeIds : GetProofTask(c, n)
    \/ \E c \in Calls, n \in NodeIds, h \in ProofHashes, p \in Proofs :
           SubmitProof(c, n, h, p)
    \/ \E c \in Calls, e \in ConcTransportErrors : SendFails(c, e)
    \/ \E c \in Calls : SendCompletes(c, ConcStatuses, ConcBodies)
    \/ \E c \in Calls : TextRead(c)
    \/ \E c \in Calls : BytesRead(c)
    \/ \E c \in Calls, e \in ConcTransportErrors : BodyReadFails(c, e)
    \/ \E c \in Calls : Return(c)

SpecConc == Init /\ [][NextConc]_vars

\* ------------------------------------------------------------ the claims

Count(seq, ev) == Cardinality({i \in 1..Len(seq) : seq[i] = ev})
Done(c) == pc[c] = "done"
\* The service answered call c and the whole body arrived.
Answered(c) == Done(c) /\ response[c].status # 0 /\ fault[c].at = "none"
TwoXX(status) == status \in 200..299

\* C1: a get_proof_task call with the empty worker identifier returns the
\* "Invalid node ID" failure at once, and no network request is issued in it.
C1_EmptyNodeIdRejected ==
    \A c \in Calls :
        (op[c] = "get_proof_task" /\ args[c].node_id = "") =>
            /\ Done(c)
            /\ result[c] = StrErr("Invalid node ID")
            /\ Count(trace[c], "send") = 0
            /\ request[c] = NoRequest
            /\ c \notin net

C1_Witness ==
    \E c \in Calls : Done(c) /\ op[c] = "get_proof_task" /\ args[c].node_id = ""

\* C2: a submit_proof call with empty result bytes returns a validation
\* failure with no request issued and neither measurement taken; with
\* non-empty bytes both measurements are taken, once each, before the request
\* is sent.
C2_EmptyProofRejected ==
    \A c \in Calls :
        op[c] = "submit_proof" =>
            IF args[c].proof = <<>>
            THEN /\ Done(c)
                 /\ result[c] = StrErr("Empty proof submitted")
                 /\ trace[c] = <<>>
                 /\ request[c] = NoRequest
                 /\ c \notin net
            ELSE /\ Count(trace[c], "get_memory_info") = 1
                 /\ Count(trace[c], "measure_flops") = 1
                 /\ \A i, j \in 1..Len(trace[c]) :
                        (trace[c][i] \in {"get_memory_info", "measure_flops"}
                         /\ trace[c][j] = "send") => i < j

C2_Witness ==
    \E c, d \in Calls :
        /\ op[c] = "submit_proof" /\ args[c].proof = <<>> /\ Done(c)
        /\ op[d] = "submit_proof" /\ args[d].proof # <<>>
        /\ Count(trace[d], "send") = 1

\* C3: a call answered with a status that is not 2xx, on either operation and
\* with any body, fails with the status failure, which carries that status
\* code and the text of that body.
AllAscii(body) == \A i \in 1..Len(body) : body[i] < 128

C3_StatusFailure ==
    \A c \in Calls :
        (Answered(c) /\ ~TwoXX(response[c].status)) =>
            /\ ~result[c].ok
            /\ result[c].fmt = "HTTP {}: {}"
            /\ result[c].status = response[c].status
            /\ result[c].text = Text(response[c].body)
            /\ AllAscii(response[c].body) => result[c].text = response[c].body
            /\ Count(trace[c], "println") = 0

C3_Witness ==
    \E c \in Calls :
        /\ Answered(c) /\ op[c] = "submit_proof"
        /\ response[c] = [status |-> 300, body |-> <<>>]
        /\ result[c].status = 300

\* C4: a 2xx response with a zero-length body makes get_proof_task fail with
\* "Empty response from orchestrator" and makes submit_proof succeed.
C4_EmptyBody ==
    \A c \in Calls :
        (Answered(c) /\ TwoXX(response[c].status) /\ response[c].body = <<>>) =>
            IF op[c] = "get_proof_task"
            THEN result[c] = StrErr("Empty response from orchestrator")
            ELSE /\ result[c].ok
                 /\ result[c].value = Unit
                 /\ Count(trace[c], "println") = 1

C4_Witness ==
    \E c, d \in Calls :
        /\ Answered(c) /\ op[c] = "get_proof_task"
        /\ response[c] = [status |-> 204, body |-> <<>>]
        /\ Answered(d) /\ op[d] = "submit_proof"
        /\ response[d] = [status |-> 204, body |-> <<>>]

\* C5: a submit_proof call with the empty worker identifier and non-empty
\* result bytes fails with a validation failure before any I/O: no
\* measurement is taken and no request is issued.
C5_SubmitEmptyNodeIdRejected ==
    \A c \in Calls :
        (op[c] = "submit_proof" /\ args[c].node_id = "" /\ args[c].proof # <<>>) =>
            /\ Done(c)
            /\ ~result[c].ok
            /\ trace[c] = <<>>
            /\ request[c] = NoRequest

\* C6, as claimed: a submit_proof call answered with a 2xx status returns
\* success and emits its success signal, whatever the body.
C6_AnyBodySucceeds ==
    \A c \in Calls :
        (Answered(c) /\ op[c] = "submit_proof" /\ TwoXX(response[c].status)) =>
            /\ result[c].ok
            /\ Count(trace[c], "println") = 1

\* C6, amended: a submit_proof call answered with a 2xx status returns
\* success and emits its success signal when the body is absent or decodes as
\* a message of the wire format, whatever its fields; a present body that
\* does not decode makes the call fail with the decode failure, and no
\* success signal is emitted.
C6_DecodableBodySucceeds ==
    \A c \in Calls :
        (Answered(c) /\ op[c] = "submit_proof" /\ TwoXX(response[c].status)) =>
            IF response[c].body = <<>> \/ Decode(UnitSchema, response[c].body).ok
            THEN /\ result[c].ok
                 /\ result[c].value = Unit
                 /\ Count(trace[c], "println") = 1
            ELSE /\ ~result[c].ok
                 /\ result[c].fmt = "Protobuf decode error: {}"
                 /\ Count(trace[c], "println") = 0

C6_Witness ==
    \E c \in Calls :
        /\ Answered(c) /\ op[c] = "submit_proof"
        /\ response[c] = [status |-> 200, body |-> <<8, 1>>]
        /\ result[c].ok
        /\ trace[c][Len(trace[c])] = "println"

\* C7: a call whose send failed, or whose exchange failed before the body
\* had arrived, fails with the one fixed connectivity message, and the text
\* of the transport error is not in the failure.
C7_FixedConnectivityMessage ==
    \A c \in Calls :
        (Done(c) /\ fault[c].at # "none") =>
            /\ result[c] = StrErr("Failed to connect to orchestrator")
            /\ result[c].diag # fault[c].text

\* C8: a call issues at most one network request, and exactly one when its
\* preconditions pass; a call that has returned, failed or not, has no
\* exchange left open.
Precondition(c) ==
    IF op[c] = "get_proof_task" THEN args[c].node_id # "" ELSE args[c].proof # <<>>

C8_OneRequestPerCall ==
    \A c \in Calls :
        /\ Count(trace[c], "send") <= 1
        /\ (op[c] # "none") => (Count(trace[c], "send") = 1 <=> Precondition(c))
        /\ Done(c) => c \notin net
        /\ pc[c] = "idle" => c \notin net /\ trace[c] = <<>>
        /\ c \in net => Count(trace[c], "send") = 1

C8_Witness ==
    \E c \in Calls :
        /\ Done(c) /\ fault[c].at = "send" /\ ~result[c].ok
        /\ Count(trace[c], "send") = 1

\* C9: for get_proof_task, a 2xx response with a non-empty body that does not
\* decode as GetProofTaskResponse yields the decode failure with the
\* decoder's diagnostic and no task; one that decodes yields the decoded
\* message.
C9_DecodeOrFail ==
    \A c \in Calls :
        (/\ Answered(c) /\ op[c] = "get_proof_task"
         /\ TwoXX(response[c].status) /\ response[c].body # <<>>) =>
            LET d == Decode(GetProofTaskResponseSchema, response[c].body) IN
            /\ IF d.ok
               THEN result[c].ok /\ result[c].value = d.msg
               ELSE /\ ~result[c].ok
                    /\ result[c].fmt = "Protobuf decode error: {}"
                    /\ result[c].diag = d.diag
                    /\ result[c].diag # ""
            /\ response[c].body = <<10, 1>> => ~result[c].ok
            /\ response[c].body = <<10, 1, 1>> =>
                   result[c].ok /\ result[c].value[1] = <<1>>

C9_Witness ==
    \E c \in Calls :
        /\ Answered(c) /\ op[c] = "get_proof_task"
        /\ response[c] = [status |-> 200, body |-> <<10, 1>>]
        /\ result[c].diag = "buffer underflow"

\* C10: under any interleaving of calls on one client the base address and
\* the client handle keep their values, every request is built from its own
\* call's arguments, and two calls with the same operation, arguments,
\* response and transport failure have the same outcome.
PathOf(c) == IF op[c] = "get_proof_task" THEN "/tasks" ELSE "/tasks/submit"

SameOutcome(c, d) ==
    /\ result[c].ok = result[d].ok
    /\ IF result[c].ok THEN result[c].value = result[d].value
       ELSE result[c] = result[d]
    /\ trace[c] = trace[d]

C10_Isolated ==
    \A c, d \in Calls :
        /\ Count(trace[c], "send") = 1 =>
               /\ request[c].node_id = args[c].node_id
               /\ request[c].proof = args[c].proof
               /\ request[c].url = base_url \o PathOf(c)
        /\ (/\ Done(c) /\ Done(d)
            /\ op[c] = op[d] /\ args[c] = args[d]
            /\ response[c] = response[d] /\ fault[c] = fault[d]) => SameOutcome(c, d)

C10_NoSharedMutableState ==
    /\ [][base_url' = base_url /\ client' = client]_vars
    /\ []C10_Isolated

C10_Witness ==
    \E c, d \in Calls :
        /\ c # d /\ Done(c) /\ Done(d)
        /\ op[c] = "get_proof_task" /\ op[d] = "get_proof_task"
        /\ args[c] = args[d]
        /\ response[c] = [status |-> 204, body |-> <<10, 1, 1>>]
        /\ response[d] = [status |-> 503, body |-> <<10, 1>>]
        /\ result[c].ok /\ ~result[d].ok

====
